---------------------------- MODULE Spec2Model ----------------------------
(***************************************************************************)
(* Model of the peer-to-peer file transfer page (HomePage component):      *)
(* session token handling, relay (socket.io) event wiring, WebRTC          *)
(* offer/answer/ICE signalling with candidate buffering, and the chunked   *)
(* file transfer over the data channel.                                    *)
(*                                                                         *)
(* Every peer is one record (the component's React state, its refs, its    *)
(* socket, its RTCPeerConnection / RTCDataChannel objects and its          *)
(* suspended async functions).  A source function that runs synchronously  *)
(* is an operator from peer record to peer record, so that a handler which *)
(* calls resetState() or cleanupRTC() is the composition of the operators, *)
(* in the order of the source.  A React setter is an assignment of the     *)
(* field: within one handler the last call wins.  A state value read       *)
(* inside a handler is the value of the render that created the handler;   *)
(* where the source reads such a stale value the model keeps the captured  *)
(* value explicitly (wiredStatus, the run's files).                         *)
(***************************************************************************)
EXTENDS Integers, Sequences, FiniteSets, TLC

VARIABLES
    peer,       \* [Peers -> peer record]: the two browser tabs
    relayIn,    \* [Peers -> Seq(message)]: relay -> peer, FIFO per peer
    relayReg,   \* Seq(Peers): the peers the relay holds for the token, in order
    lastOp,     \* the operation that produced this state (history, for the properties)
    tokenArg,   \* argument of a direct isValidToken call
    tokenResult \* its result ("none" before the call)

vars == <<peer, relayIn, relayReg, lastOp, tokenArg, tokenResult>>

Peers == {"A", "B"}
Other(p) == IF p = "A" THEN "B" ELSE "A"

-----------------------------------------------------------------------------
(* Bounds of the model *)

\* longest string handed to isValidToken directly
MaxTokenLen == 17
\* most create-session requests awaiting the relay's HTTP response at once
MaxFetches == 1
\* most messages waiting in a peer's emit queue or in its inbox
MaxQueue == 2
\* most RTCPeerConnection objects a peer constructs
MaxPcs == 1
\* most signal events a peer receives
MaxSignals == 4
\* most files selected for one sendFiles run
MaxFiles == 2

-----------------------------------------------------------------------------
(* JavaScript values: strings are sequences of UTF-16 code units *)

Str(s) == [t |-> "string", s |-> s]
Undefined == [t |-> "undefined", s |-> <<>>]
Null == [t |-> "object", s |-> <<>>]
NumberValue == [t |-> "number", s |-> <<>>]

\* String.prototype.trim: WhiteSpace and LineTerminator code units
IsWhiteSpace(c) ==
    c \in {9, 10, 11, 12, 13, 32, 160, 5760, 8232, 8233, 8239, 8287, 12288, 65279}
    \/ c \in 8192..8202

RECURSIVE TrimLeft(_)
TrimLeft(s) ==
    IF s # <<>> /\ IsWhiteSpace(Head(s)) THEN TrimLeft(Tail(s)) ELSE s

RECURSIVE TrimRight(_)
TrimRight(s) ==
    IF s # <<>> /\ IsWhiteSpace(s[Len(s)])
    THEN TrimRight(SubSeq(s, 1, Len(s) - 1))
    ELSE s

Trim(s) == TrimRight(TrimLeft(s))

\* the character class [A-Fa-f0-9]
InHexClass(c) == (c >= 65 /\ c <= 70) \/ (c >= 97 /\ c <= 102) \/ (c >= 48 /\ c <= 57)

\* /^[A-Fa-f0-9]+$/.test(s): no "m" flag, so ^ and $ are the ends of the input
RECURSIVE MatchClassPlus(_, _)
MatchClassPlus(s, i) ==
    IF i > Len(s) THEN i > 1
    ELSE IF InHexClass(s[i]) THEN MatchClassPlus(s, i + 1)
    ELSE FALSE

isValidToken_noUpper(token) ==
    /\ token.t = "string"
    /\ Len(token.s) = 16
    /\ \A i \in 1..Len(token.s) :
          (token.s[i] >= 97 /\ token.s[i] <= 102) \/ (token.s[i] >= 48 /\ token.s[i] <= 57)

isValidToken(token) ==
    IF token.t # "string" THEN FALSE
    ELSE IF Len(token.s) # 16 THEN FALSE
    ELSE MatchClassPlus(token.s, 1)

-----------------------------------------------------------------------------
(* The peer record *)

NoToken == <<>>
NoMeta == [type |-> "none", name |-> "", size |-> 0]

\* a message emitted to the relay or delivered by it
Msg(ev, token, type, data) == [ev |-> ev, token |-> token, type |-> type, data |-> data]

InitPeer == [
    mounted       |-> TRUE,
    status        |-> "idle",      \* useState("idle")
    error         |-> "",
    roleRef       |-> "none",      \* roleRef.current (setRole mirrors it)
    sessionToken  |-> NoToken,     \* useState("")
    tokenRef      |-> NoToken,     \* sessionTokenRef.current
    selectedFiles |-> <<>>,
    currentFileIndex |-> 0,        \* useState(0)
    sendProgress  |-> [num |-> 0, den |-> 1],   \* useState(0), as a fraction of 100
    sock          |-> "none",      \* socketRef.current: none, connecting, connected,
                                   \* reconnecting, closed
    listeners     |-> {},          \* event names with a listener on the socket
    wiredStatus   |-> "idle",      \* `status` as seen by the socket listeners
    out           |-> <<>>,        \* messages emitted to the relay, not yet taken
    fetches       |-> <<>>,        \* createSession calls awaiting fetch: captured status
    pcs           |-> <<>>,        \* every RTCPeerConnection constructed
    dcs           |-> <<>>,        \* every RTCDataChannel bound
    pcRef         |-> 0,           \* pcRef.current: index into pcs, 0 = null
    dcRef         |-> 0,           \* dcRef.current: index into dcs, 0 = null
    iceQueue      |-> <<>>,        \* iceCandidateQueueRef.current
    pending       |-> <<>>,        \* async functions suspended on an operation of a
                                   \* peer connection, in the order of the calls
    signals       |-> 0,           \* signal events received so far
    arrivals      |-> 0,           \* ice signals received so far (names the candidates)
    earlyIce      |-> <<>>,        \* history: candidates that arrived while the
                                   \* connection had no remote description
    arrivedFor    |-> <<>>,        \* history: pcRef.current at each candidate's arrival
    recvMeta      |-> NoMeta,
    recvChunks    |-> <<>>,
    recvBytes     |-> 0,
    delivered     |-> <<>>,        \* files handed to the consumer (a.click())
    received      |-> <<>>,        \* history: frames handed to dc.onmessage
    converting    |-> <<>>,        \* frames whose arrayBuffer() promise is pending
    runs          |-> <<>>,        \* suspended sendFiles loops
    sendStarted   |-> 0,           \* history: sendFiles runs started
    runFiles      |-> <<>>,        \* history: the files of the latest run
    sendFailures  |-> 0,           \* history: sendFiles runs ended by their catch
    sentAtFail    |-> 0            \* history: frames handed to send() before the
                                   \* latest such failure
]

emit(s, m) == [s EXCEPT !.out = Append(@, m)]

WiredEvents ==
    {"registered", "ready", "signal", "error-message", "session-destroyed",
     "connect_error", "disconnect"}

-----------------------------------------------------------------------------
(* Teardown *)

\* RTCDataChannel.close()
CloseDc(dc) ==
    [dc EXCEPT !.readyState = "closed", !.closedAttached = @ \/ dc.handlers]

\* RTCPeerConnection.close(): closes its channels too
ClosePc(s, i) ==
    [s EXCEPT !.pcs[i] = [@ EXCEPT !.closed = TRUE, !.connectionState = "closed",
                                   !.closedAttached =
                                       @ \/ s.pcs[i].handlers \/ s.pcs[i].ondatachannel],
              !.dcs = [j \in DOMAIN s.dcs |->
                          IF s.dcs[j].pc = i
                          THEN [s.dcs[j] EXCEPT !.readyState = "closed"]
                          ELSE s.dcs[j]]]

\* iceCandidateQueueRef.current is about to be replaced by a new array: a
\* for-of loop that is iterating the old array keeps iterating that array
DetachLoops(s) ==
    [k \in DOMAIN s.pending |->
        IF s.pending[k].live
        THEN [s.pending[k] EXCEPT !.live = FALSE, !.arr = s.iceQueue]
        ELSE s.pending[k]]

cleanupRTC(s) ==
    LET s1 == IF s.dcRef # 0
              THEN [s EXCEPT !.dcs[s.dcRef] = CloseDc([@ EXCEPT !.handlers = FALSE])]
              ELSE s
        s2 == [s1 EXCEPT !.dcRef = 0]
        s3 == IF s2.pcRef # 0
              THEN ClosePc([s2 EXCEPT !.pcs[s2.pcRef] =
                               [@ EXCEPT !.handlers = FALSE, !.ondatachannel = FALSE]],
                           s2.pcRef)
              ELSE s2
    IN  [s3 EXCEPT !.pcRef = 0, !.iceQueue = <<>>,
                   \* a loop that iterates the old array keeps that array
                   !.pending = DetachLoops(s3)]

resetState(s) ==
    LET s1 == [s EXCEPT !.status = "idle", !.error = "", !.roleRef = "none",
                        !.selectedFiles = <<>>, !.currentFileIndex = 0,
                        !.sendProgress = [num |-> 0, den |-> 1],
                        !.recvChunks = <<>>, !.recvMeta = NoMeta, !.recvBytes = 0]
        s2 == IF s1.sock # "none"
              THEN [emit(s1, Msg("session-cancel", s.sessionToken, "", 0))
                      EXCEPT !.listeners = {}]
              ELSE s1
    IN  cleanupRTC(s2)

-----------------------------------------------------------------------------
(* The relay connection *)

ensureSocket(s) ==
    IF s.sock = "connected" THEN s
    ELSE IF s.sock = "none"
    THEN [s EXCEPT !.sock = "connecting",
                   !.listeners = @ \cup {"reconnect", "reconnect_error"}]
    ELSE IF s.sock = "closed" THEN [s EXCEPT !.sock = "connecting"]
    ELSE s

\* the listeners close over the `status` of the render whose createSession or
\* joinSession called wireSocketEvents
wireSocketEvents(s, capturedStatus) ==
    [s EXCEPT !.listeners = (@ \ WiredEvents) \cup WiredEvents,
              !.wiredStatus = capturedStatus]

\* lines 212-218 and 239-245: the socket, its listeners, the registration
register(s, token, capturedStatus) ==
    emit(wireSocketEvents(ensureSocket(s), capturedStatus),
         Msg("register", token, "", 0))

joinSession(s, input) ==
    LET s1 == resetState(s)
        token == Trim(input)
    IN  IF token = <<>> \/ ~isValidToken(Str(token))
        THEN [s1 EXCEPT !.error = "Invalid token.", !.status = "error"]
        ELSE LET s2 == [s1 EXCEPT !.sessionToken = token, !.tokenRef = token,
                                  !.status = "waiting"]
             IN  register(s2, token, s.status)

\* createSession up to its await of fetch
createSessionStart(s) ==
    [resetState(s) EXCEPT !.fetches = Append(@, s.status)]

\* createSession after a 2xx response carrying data.token
createSessionOk(s, token) ==
    LET captured == Head(s.fetches)
        s1 == [s EXCEPT !.fetches = Tail(@), !.sessionToken = token,
                        !.tokenRef = token, !.status = "waiting"]
    IN  register(s1, token, captured)

\* createSession going on to the socket after a failed request
createSessionFail_registers(s, message) ==
    register([s EXCEPT !.fetches = Tail(@), !.error = message, !.status = "error"],
             s.tokenRef, Head(s.fetches))

\* createSession when the response is not ok or fetch rejects
createSessionFail(s, message) ==
    [s EXCEPT !.fetches = Tail(@), !.error = message, !.status = "error"]

-----------------------------------------------------------------------------
(* Peer connection and data channel objects *)

NewPc == [
    closed             |-> FALSE,
    handlers           |-> TRUE,    \* onicecandidate, on(ice)connectionstatechange
    ondatachannel      |-> FALSE,
    remoteDescription  |-> FALSE,
    localDescription   |-> FALSE,
    connectionState    |-> "new",
    iceConnectionState |-> "new",
    applied            |-> <<>>,    \* candidates passed to addIceCandidate, in call order
    gathered           |-> 0,       \* local candidates emitted so far
    token              |-> <<>>,    \* startWebRTC's local token, seen by onicecandidate
    closedAttached     |-> FALSE    \* history: close() was called with a handler attached
]

NewDc(pcIndex, capturedStatus) == [
    pc          |-> pcIndex,
    readyState  |-> "connecting",
    handlers    |-> TRUE,           \* onopen, onmessage, onclose, onerror
    seenStatus  |-> capturedStatus, \* `status` as seen by onclose
    remote      |-> 0,              \* the other peer's end of the channel (index there)
    buffer      |-> <<>>,           \* frames handed to send(), not yet on the wire
    wire        |-> <<>>,           \* frames on the wire to the other end
    lowEvent    |-> FALSE,          \* a bufferedamountlow event is queued
    sentLog     |-> <<>>,           \* history: every frame handed to send(), in order
    preSend     |-> 0,              \* history: bufferedAmount just before the last
                                    \* chunk was handed to send()
    closedAttached |-> FALSE        \* history: close() was called with a handler attached
]

\* an async function suspended at an await of an operation of connection pcIndex
Suspended(fn, pcIndex, type, at) == [
    fn   |-> fn,        \* "startWebRTC" or "signal"
    pc   |-> pcIndex,   \* the function's local pc
    type |-> type,      \* the signal's type
    at   |-> at,        \* the operation awaited
    idx  |-> 0,         \* position of the flush loop in the array it iterates
    live |-> FALSE,     \* the array iterated is still iceCandidateQueueRef.current
    arr  |-> <<>>,      \* the array iterated, once it no longer is
    token |-> <<>>      \* startWebRTC's local token
]

bindDataChannel(s, pcIndex) ==
    [s EXCEPT !.dcs = Append(@, NewDc(pcIndex, s.wiredStatus)),
              !.dcRef = Len(s.dcs) + 1]

\* startWebRTC up to its first await (the host's createOffer) or to its end
startWebRTC(s) ==
    IF s.tokenRef = NoToken \/ ~isValidToken(Str(s.tokenRef))
    THEN [s EXCEPT !.error = "Invalid session token. Please try again.",
                   !.status = "error"]
    ELSE LET i  == Len(s.pcs) + 1
             s1 == [s EXCEPT !.pcs = Append(@, [NewPc EXCEPT !.token = s.tokenRef]),
                             !.pcRef = i]
         IN  IF s1.roleRef = "host"
             THEN [bindDataChannel(s1, i) EXCEPT
                      !.pending = Append(@, [Suspended("startWebRTC", i, "", "createOffer")
                                                EXCEPT !.token = s.tokenRef])]
             ELSE [s1 EXCEPT !.pcs[i] = [@ EXCEPT !.ondatachannel = TRUE]]

-----------------------------------------------------------------------------
(* Socket listeners *)

onConnectError(s) ==
    [s EXCEPT !.error = "Failed to connect to signaling server.", !.status = "error"]

onDisconnect(s, reason) ==
    IF reason # "io client disconnect"
    THEN LET s1 == [s EXCEPT !.error = "Disconnected from signaling server."]
         IN  IF s.wiredStatus # "completed" THEN [s1 EXCEPT !.status = "error"] ELSE s1
    ELSE s

onReconnect(s) ==
    IF s.tokenRef # NoToken THEN emit(s, Msg("register", s.tokenRef, "", 0)) ELSE s

onReconnectError(s) ==
    [s EXCEPT !.error = "Failed to reconnect to signaling server.", !.status = "error"]

onRegistered(s, r) == [s EXCEPT !.roleRef = r]

onReady(s) ==
    IF s.tokenRef # NoToken /\ isValidToken(Str(s.tokenRef))
    THEN startWebRTC(s)
    ELSE [s EXCEPT !.error = "Session token not ready. Please try again.",
                   !.status = "error"]

onErrorMessage(s, message) ==
    [s EXCEPT !.error = IF message # "" THEN message ELSE "Signaling error",
              !.status = "error"]

onSessionDestroyed(s) == cleanupRTC([s EXCEPT !.status = "completed"])

\* the waiting watchdog's timer callback (its closure saw status "waiting")
onWaitingTimeout(s) ==
    resetState([s EXCEPT !.error = "Connection timeout: peer did not connect in time.",
                         !.status = "error"])

\* the unmount effect: cleanupRTC, then socket.disconnect(), which fires the
\* disconnect listeners with reason "io client disconnect"
unmount(s) ==
    LET s1 == cleanupRTC(s)
        s2 == IF s1.sock = "connected" /\ "disconnect" \in s1.listeners
              THEN onDisconnect(s1, "io client disconnect")
              ELSE s1
    IN  [s2 EXCEPT !.mounted = FALSE,
                   !.sock = IF @ = "none" THEN "none" ELSE "closed"]

-----------------------------------------------------------------------------
(* Direct calls of isValidToken on sampled inputs *)

\* code units at and around the ends of the three ranges, and white space
SampleChars == {10, 32, 47, 48, 57, 58, 64, 65, 70, 71, 96, 97, 102, 103}
BaseChars == {48, 70, 97}

\* strings of every length up to MaxTokenLen over a hexadecimal base
\* character, with one position holding any sampled character
SampleStrings ==
    {<<>>} \cup
    UNION { { [i \in 1..n |-> IF i = k THEN c ELSE b] :
                k \in 1..n, c \in SampleChars, b \in BaseChars } :
            n \in 1..MaxTokenLen }

TokenArgs == {Str(s) : s \in SampleStrings} \cup {Undefined, Null, NumberValue}

InitToken ==
    /\ tokenArg \in TokenArgs
    /\ tokenResult = "none"
    /\ peer = [p \in Peers |-> InitPeer]
    /\ relayIn = [p \in Peers |-> <<>>]
    /\ relayReg = <<>>
    /\ lastOp = [op |-> "init", p |-> "A", arg |-> <<>>]

CallIsValidToken ==
    /\ tokenResult = "none"
    /\ tokenResult' = IF isValidToken(tokenArg) THEN "true" ELSE "false"
    /\ lastOp' = [op |-> "isValidToken", p |-> "A", arg |-> tokenArg.s]
    /\ UNCHANGED <<peer, relayIn, relayReg, tokenArg>>

-----------------------------------------------------------------------------
(* Actions: one peer's session with the relay *)

\* "1a2b3c4d5e6f7890" and "ABCDEF0123456789"
T1 == <<49, 97, 50, 98, 51, 99, 52, 100, 53, 101, 54, 102, 55, 56, 57, 48>>
T2 == <<65, 66, 67, 68, 69, 70, 48, 49, 50, 51, 52, 53, 54, 55, 56, 57>>
\* tokens the relay mints
TokenPool == {T1}

\* what the user may have typed into the token input
JoinInputs ==
    { T1,
      <<32>> \o T2 \o <<32, 10>>,       \* pasted with white space around it
      SubSeq(T1, 1, 15),                \* 15 characters
      [T1 EXCEPT ![16] = 103],          \* "...g"
      <<32, 32>> }

Step(p, s2, op, arg) ==
    /\ peer' = [peer EXCEPT ![p] = s2]
    /\ Len(s2.out) <= MaxQueue
    /\ lastOp' = [op |-> op, p |-> p, arg |-> arg]
    /\ UNCHANGED <<relayIn, relayReg, tokenArg, tokenResult>>

CreateSession(p) ==
    /\ peer[p].mounted
    /\ Len(peer[p].fetches) < MaxFetches
    /\ Step(p, createSessionStart(peer[p]), "createSession", <<>>)

FetchOk(p) ==
    /\ peer[p].mounted
    /\ peer[p].fetches # <<>>
    /\ \E token \in TokenPool :
          Step(p, createSessionOk(peer[p], token), "createSessionOk", <<>>)

FetchFail(p) ==
    /\ peer[p].mounted
    /\ peer[p].fetches # <<>>
    /\ \E message \in {"Failed to create session", "Failed to fetch"} :
          Step(p, createSessionFail(peer[p], message), "createSessionFail", <<>>)

JoinSession(p) ==
    /\ peer[p].mounted
    /\ \E input \in JoinInputs :
          Step(p, joinSession(peer[p], input), "joinSession", input)

\* the Reset button is rendered for the host while status is not completed
ResetClick(p) ==
    /\ peer[p].mounted
    /\ peer[p].roleRef = "host"
    /\ peer[p].status # "completed"
    /\ Step(p, resetState(peer[p]), "resetState", <<>>)

WaitingTimeout(p) ==
    /\ peer[p].mounted
    /\ peer[p].status = "waiting"
    /\ Step(p, onWaitingTimeout(peer[p]), "waitingTimeout", <<>>)

Unmount(p) ==
    /\ peer[p].mounted
    /\ Step(p, unmount(peer[p]), "unmount", <<>>)

\* the handler runs if a listener for the event is attached
Listen(s, event, s2) == IF event \in s.listeners THEN s2 ELSE s

SocketConnect(p) ==
    /\ peer[p].mounted
    /\ peer[p].sock = "connecting"
    /\ Step(p, [peer[p] EXCEPT !.sock = "connected"], "connect", <<>>)

SocketConnectError(p) ==
    /\ peer[p].mounted
    /\ peer[p].sock = "connecting"
    /\ Step(p, Listen(peer[p], "connect_error", onConnectError(peer[p])),
            "connect_error", <<>>)

\* "io server disconnect" is final; after the other reasons socket.io reconnects
SocketDisconnect(p) ==
    /\ peer[p].mounted
    /\ peer[p].sock = "connected"
    /\ \E reason \in {"io server disconnect", "transport close"} :
          LET s1 == [peer[p] EXCEPT !.sock = IF reason = "io server disconnect"
                                              THEN "closed" ELSE "reconnecting"]
          IN  Step(p, Listen(s1, "disconnect", onDisconnect(s1, reason)),
                   "disconnect", <<>>)

SocketReconnect(p) ==
    /\ peer[p].mounted
    /\ peer[p].sock = "reconnecting"
    /\ LET s1 == [peer[p] EXCEPT !.sock = "connected"]
       IN  Step(p, Listen(s1, "reconnect", onReconnect(s1)), "reconnect", <<>>)

SocketReconnectError(p) ==
    /\ peer[p].mounted
    /\ peer[p].sock = "reconnecting"
    /\ Step(p, Listen(peer[p], "reconnect_error", onReconnectError(peer[p])),
            "reconnect_error", <<>>)

\* the relay takes the oldest message this peer emitted
RelayTake(p) ==
    /\ peer[p].out # <<>>
    /\ peer[p].sock = "connected"
    /\ Step(p, [peer[p] EXCEPT !.out = Tail(@)], "relayTake", <<>>)

(* relay events, one peer seen alone: the relay may send any of them *)
Hears(p, event) ==
    /\ peer[p].mounted
    /\ peer[p].sock = "connected"
    /\ event \in peer[p].listeners

EnvRegistered(p) ==
    /\ Hears(p, "registered")
    /\ \E r \in {"host", "guest"} :
          Step(p, onRegistered(peer[p], r), "registered", <<>>)

EnvReady(p) ==
    /\ Hears(p, "ready")
    /\ Len(peer[p].pcs) < MaxPcs
    /\ Step(p, onReady(peer[p]), "ready", <<>>)

EnvErrorMessage(p) ==
    /\ Hears(p, "error-message")
    /\ \E message \in {"Session is full", ""} :
          Step(p, onErrorMessage(peer[p], message), "error-message", <<>>)

EnvSessionDestroyed(p) ==
    /\ Hears(p, "session-destroyed")
    /\ Step(p, onSessionDestroyed(peer[p]), "session-destroyed", <<>>)

InitPeers ==
    /\ peer = [p \in Peers |-> InitPeer]
    /\ relayIn = [p \in Peers |-> <<>>]
    /\ relayReg = <<>>
    /\ lastOp = [op |-> "init", p |-> "A", arg |-> <<>>]
    /\ tokenArg = Undefined
    /\ tokenResult = "none"

NextSession ==
    \/ CreateSession("A")
    \/ FetchOk("A")
    \/ FetchFail("A")
    \/ JoinSession("A")
    \/ ResetClick("A")
    \/ WaitingTimeout("A")
    \/ Unmount("A")
    \/ SocketConnect("A")
    \/ SocketConnectError("A")
    \/ SocketDisconnect("A")
    \/ SocketReconnect("A")
    \/ SocketReconnectError("A")
    \/ RelayTake("A")
    \/ EnvRegistered("A")
    \/ EnvReady("A")
    \/ EnvErrorMessage("A")
    \/ EnvSessionDestroyed("A")

\* one peer and its relay connection, up to one peer connection
SpecSession == InitPeers /\ [][NextSession]_vars

NextCreate ==
    \/ CreateSession("A")
    \/ FetchOk("A")
    \/ FetchFail("A")
    \/ JoinSession("A")
    \/ SocketConnect("A")
    \/ SocketDisconnect("A")
    \/ SocketReconnect("A")
    \/ RelayTake("A")
    \/ EnvRegistered("A")
    \/ EnvErrorMessage("A")

\* one page creating and joining sessions, with the relay's replies to a
\* registration; no peer connection is started
SpecCreate == InitPeers /\ [][NextCreate]_vars

NextToken == CallIsValidToken

\* isValidToken called on each sampled value
SpecToken == InitToken /\ [][NextToken]_vars

-----------------------------------------------------------------------------
(* The signal listener and the host's startWebRTC: offer, answer, ICE *)

Call(s, h) == [s EXCEPT !.pending = Append(@, h)]

addIceCandidate(s, i, candidate) ==
    [s EXCEPT !.pcs[i] = [@ EXCEPT !.applied = Append(@, candidate)]]

onSignal_unshift(s, type, data) ==
    LET i == s.pcRef
    IN  IF i = 0 THEN s
        ELSE IF type \in {"offer", "answer"}
        THEN Call(s, Suspended("signal", i, type, "setRemoteDescription"))
        ELSE IF type = "ice"
        THEN IF s.pcs[i].remoteDescription
             THEN Call(addIceCandidate(s, i, data),
                       Suspended("signal", i, type, "addIceCandidate"))
             ELSE [s EXCEPT !.iceQueue = <<data>> \o @]
        ELSE s

\* the signal listener up to its first await (lines 290-327)
onSignal(s, type, data) ==
    LET i == s.pcRef
    IN  IF i = 0 THEN s
        ELSE IF type \in {"offer", "answer"}
        THEN Call(s, Suspended("signal", i, type, "setRemoteDescription"))
        ELSE IF type = "ice"
        THEN IF s.pcs[i].remoteDescription
             THEN Call(addIceCandidate(s, i, data),
                       Suspended("signal", i, type, "addIceCandidate"))
             ELSE [s EXCEPT !.iceQueue = Append(@, data)]
        ELSE s

\* the array a flush loop iterates
LoopArray(s, h) == IF h.live THEN s.iceQueue ELSE h.arr

\* after the flush loop: the queue is replaced; an offer goes on to its answer
afterFlush(s, h) ==
    LET s1 == [s EXCEPT !.pending = DetachLoops(s), !.iceQueue = <<>>]
    IN  IF h.type = "offer"
        THEN Call(s1, [h EXCEPT !.at = "createAnswer", !.live = FALSE, !.arr = <<>>])
        ELSE s1

\* the for-of loop of lines 296-300 and 311-315, from position h.idx on
flushFrom(s, h) ==
    LET items == LoopArray(s, h)
    IN  IF h.idx <= Len(items)
        THEN Call(addIceCandidate(s, h.pc, items[h.idx]), [h EXCEPT !.at = "flush"])
        ELSE afterFlush(s, h)

signalFailed_logsOnly(s) == s

signalFailed(s) ==
    [s EXCEPT !.error = "Signaling error: operation failed", !.status = "error"]

resumeSignal_emitsOnCreate(s, h, ok) ==
    CASE h.at = "setRemoteDescription" ->
            IF ok
            THEN flushFrom([s EXCEPT !.pcs[h.pc] = [@ EXCEPT !.remoteDescription = TRUE]],
                           [h EXCEPT !.idx = 1, !.live = TRUE])
            ELSE signalFailed(s)
      [] h.at = "flush" -> flushFrom(s, [h EXCEPT !.idx = @ + 1])
      [] h.at = "createAnswer" ->
            IF ok
            THEN emit(Call(s, [h EXCEPT !.at = "setLocalDescription"]),
                      Msg("signal", s.tokenRef, "answer", 0))
            ELSE signalFailed(s)
      [] h.at = "setLocalDescription" ->
            IF ok
            THEN [s EXCEPT !.pcs[h.pc] = [@ EXCEPT !.localDescription = TRUE]]
            ELSE signalFailed(s)
      [] OTHER -> s

resumeSignal_flushAborts(s, h, ok) ==
    CASE h.at = "setRemoteDescription" ->
            IF ok
            THEN flushFrom([s EXCEPT !.pcs[h.pc] = [@ EXCEPT !.remoteDescription = TRUE]],
                           [h EXCEPT !.idx = 1, !.live = TRUE])
            ELSE signalFailed(s)
      [] h.at = "flush" ->
            IF ok THEN flushFrom(s, [h EXCEPT !.idx = @ + 1]) ELSE signalFailed(s)
      [] h.at = "createAnswer" ->
            IF ok THEN Call(s, [h EXCEPT !.at = "setLocalDescription"])
            ELSE signalFailed(s)
      [] h.at = "setLocalDescription" ->
            IF ok
            THEN emit([s EXCEPT !.pcs[h.pc] = [@ EXCEPT !.localDescription = TRUE]],
                      Msg("signal", s.tokenRef, "answer", 0))
            ELSE signalFailed(s)
      [] OTHER -> s

\* the signal listener resumes after the awaited operation succeeded (ok) or threw
resumeSignal(s, h, ok) ==
    CASE h.at = "setRemoteDescription" ->
            IF ok
            THEN flushFrom([s EXCEPT !.pcs[h.pc] = [@ EXCEPT !.remoteDescription = TRUE]],
                           [h EXCEPT !.idx = 1, !.live = TRUE])
            ELSE signalFailed(s)
      [] h.at = "flush" -> flushFrom(s, [h EXCEPT !.idx = @ + 1])
      [] h.at = "createAnswer" ->
            IF ok THEN Call(s, [h EXCEPT !.at = "setLocalDescription"])
            ELSE signalFailed(s)
      [] h.at = "setLocalDescription" ->
            IF ok
            THEN emit([s EXCEPT !.pcs[h.pc] = [@ EXCEPT !.localDescription = TRUE]],
                      Msg("signal", s.tokenRef, "answer", 0))
            ELSE signalFailed(s)
      [] OTHER -> s      \* addIceCandidate of an ice signal: a failure is only logged

resumeStartWebRTC_emitsEarly(s, h, ok) ==
    IF ~ok
    THEN [s EXCEPT !.error = "WebRTC init failed: operation failed", !.status = "error"]
    ELSE IF h.at = "createOffer"
    THEN LET s1 == Call(s, [h EXCEPT !.at = "setLocalDescription"])
         IN  IF s1.sock # "none"
             THEN emit(s1, Msg("signal", h.token, "offer", 0))
             ELSE s1
    ELSE [s EXCEPT !.pcs[h.pc] = [@ EXCEPT !.localDescription = TRUE]]

\* the host's startWebRTC resumes (lines 391-394, 401-405); token is its local
resumeStartWebRTC(s, h, ok) ==
    IF ~ok
    THEN [s EXCEPT !.error = "WebRTC init failed: operation failed", !.status = "error"]
    ELSE IF h.at = "createOffer"
    THEN Call(s, [h EXCEPT !.at = "setLocalDescription"])
    ELSE LET s1 == [s EXCEPT !.pcs[h.pc] = [@ EXCEPT !.localDescription = TRUE]]
         IN  IF s1.sock # "none"
             THEN emit(s1, Msg("signal", h.token, "offer", 0))
             ELSE s1

Without(seq, k) == SubSeq(seq, 1, k - 1) \o SubSeq(seq, k + 1, Len(seq))

\* the k-th suspended function resumes
resume(s, k, ok) ==
    LET h  == s.pending[k]
        s1 == [s EXCEPT !.pending = Without(@, k)]
    IN  IF h.fn = "signal" THEN resumeSignal(s1, h, ok)
        ELSE resumeStartWebRTC(s1, h, ok)

\* operations of one connection complete in the order they were called
\* (the connection's operations chain)
OldestOnItsPc(s, k) == \A j \in 1..(k - 1) : s.pending[j].pc # s.pending[k].pc

PcOpResolves(p) ==
    /\ peer[p].mounted
    /\ \E k \in DOMAIN peer[p].pending :
          /\ OldestOnItsPc(peer[p], k)
          /\ ~peer[p].pcs[peer[p].pending[k].pc].closed
          /\ Step(p, resume(peer[p], k, TRUE), "resolve", <<>>)

PcOpRejects(p) ==
    /\ peer[p].mounted
    /\ \E k \in DOMAIN peer[p].pending :
          /\ OldestOnItsPc(peer[p], k)
          /\ Step(p, resume(peer[p], k, FALSE), "reject", <<>>)

\* a signal event; an ice signal is named by its arrival number.  earlyIce
\* records, from the state before the listener runs, the candidates that arrive
\* while the current connection has no remote description.
Signalled(s, type, s2) ==
    IF type = "ice"
    THEN [s2 EXCEPT !.signals = @ + 1, !.arrivals = @ + 1,
                    !.arrivedFor = Append(@, s.pcRef),
                    !.earlyIce = IF s.pcRef # 0 /\ ~s.pcs[s.pcRef].remoteDescription
                                 THEN Append(@, s.arrivals + 1) ELSE @]
    ELSE [s2 EXCEPT !.signals = @ + 1]

EnvSignal(p) ==
    /\ Hears(p, "signal")
    /\ peer[p].signals < MaxSignals
    /\ \E type \in {"offer", "answer", "ice"} :
          LET s == peer[p]
              data == IF type = "ice" THEN s.arrivals + 1 ELSE 0
          IN  Step(p, Signalled(s, type, onSignal(s, type, data)), "signal", <<>>)

\* window "offline" (lines 625-628)
onOffline(s) == [s EXCEPT !.error = "You are offline", !.status = "error"]

\* window "online" (lines 629-632); the effect re-attaches the listener at
\* every change of status, so it sees the current one
onOnline(s) ==
    LET s1 == [s EXCEPT !.error = ""]
    IN  IF s.status = "error" THEN [s1 EXCEPT !.status = "idle"] ELSE s1

BrowserOffline(p) ==
    /\ peer[p].mounted
    /\ peer[p].error # "You are offline"
    /\ Step(p, onOffline(peer[p]), "offline", <<>>)

BrowserOnline(p) ==
    /\ peer[p].mounted
    /\ Step(p, onOnline(peer[p]), "online", <<>>)

\* a peer that joined or created a session, was registered and received ready
Negotiating(r) ==
    LET s1 == [joinSession(InitPeer, T1) EXCEPT !.sock = "connected", !.out = <<>>]
    IN  onReady(onRegistered(s1, r))

InitSignal ==
    /\ \E r \in {"host", "guest"} :
          peer = [p \in Peers |-> IF p = "A" THEN Negotiating(r) ELSE InitPeer]
    /\ relayIn = [p \in Peers |-> <<>>]
    /\ relayReg = <<>>
    /\ lastOp = [op |-> "ready", p |-> "A", arg |-> <<>>]
    /\ tokenArg = Undefined
    /\ tokenResult = "none"

NextSignal ==
    \/ EnvSignal("A")
    \/ PcOpResolves("A")
    \/ PcOpRejects("A")
    \/ RelayTake("A")
    \/ BrowserOffline("A")
    \/ BrowserOnline("A")

\* one peer with a live connection, receiving signals in any order, in a
\* browser that may go offline and online
SpecSignal == InitSignal /\ [][NextSignal]_vars

\* the relay sends ready again (two peers hold the token again, after a
\* re-registration): one connection more than MaxPcs may be started
EnvReadyAgain(p) ==
    /\ Hears(p, "ready")
    /\ Len(peer[p].pcs) <= MaxPcs
    /\ Step(p, onReady(peer[p]), "ready", <<>>)

NextReady ==
    \/ EnvSignal("A")
    \/ PcOpResolves("A")
    \/ EnvReadyAgain("A")
    \/ RelayTake("A")

\* one peer with a live connection, receiving signals and further ready events
SpecReady == InitSignal /\ [][NextReady]_vars

-----------------------------------------------------------------------------
(* Connection and channel events *)

onConnectionStateChange(s, i, state) ==
    LET s1 == [s EXCEPT !.pcs[i] = [@ EXCEPT !.connectionState = state]]
    IN  IF ~s.pcs[i].handlers THEN s1
        ELSE IF state = "connected" THEN [s1 EXCEPT !.status = "connected"]
        ELSE IF state \in {"failed", "disconnected"}
        THEN [s1 EXCEPT !.error = "Peer connection failed or disconnected.",
                        !.status = "error"]
        ELSE s1

\* the guest's pc.ondatachannel: the channel announced by the host's end
\* remoteIndex; it is already open when the event fires
onDataChannel(s, i, remoteIndex) ==
    IF ~s.pcs[i].ondatachannel THEN s
    ELSE LET s1 == bindDataChannel(s, i)
         IN  [s1 EXCEPT !.dcs[s1.dcRef] =
                           [@ EXCEPT !.readyState = "open", !.remote = remoteIndex]]

\* the channel's open event
onDcOpen(s, d) ==
    LET s1 == [s EXCEPT !.dcs[d] = [@ EXCEPT !.readyState = "open"]]
    IN  IF s.dcs[d].handlers THEN [s1 EXCEPT !.status = "connected"] ELSE s1

-----------------------------------------------------------------------------
(* Files and frames *)

CHUNK_SIZE == 65536

\* dc.bufferedAmountLowThreshold
LowThreshold == CHUNK_SIZE * 4

File(name, size) == [name |-> name, size |-> size, mime |-> "text/plain"]

\* UTF-8 length of the strings that occur in a meta frame
StrBytes(str) ==
    CASE str = "text/plain" -> 10
      [] str = "" -> 0
      [] OTHER -> 2           \* the file names "f1", "f2", ...

RECURSIVE Digits(_)
Digits(n) == IF n < 10 THEN 1 ELSE 1 + Digits(n \div 10)

\* length of JSON.stringify({type:"meta", name, size, mime, chunkSize: 65536})
MetaFrameBytes(f) == 61 + StrBytes(f.name) + Digits(f.size) + StrBytes(f.mime)

MetaFrame(f) ==
    [kind |-> "meta", name |-> f.name, size |-> f.size, mime |-> f.mime,
     offset |-> 0, len |-> MetaFrameBytes(f)]

\* file.slice(offset, offset + CHUNK_SIZE) read into an ArrayBuffer
ChunkFrame(f, offset, len) ==
    [kind |-> "chunk", name |-> f.name, size |-> 0, mime |-> "",
     offset |-> offset, len |-> len]

Min(a, b) == IF a < b THEN a ELSE b

RECURSIVE SumLen(_)
SumLen(frames) == IF frames = <<>> THEN 0 ELSE Head(frames).len + SumLen(Tail(frames))

\* dc.bufferedAmount
BufferedAmount(dc) == SumLen(dc.buffer)

\* dc.send(frame)
send(s, d, frame) ==
    [s EXCEPT !.dcs[d] = [@ EXCEPT !.buffer = Append(@, frame),
                                   !.sentLog = Append(@, frame)]]

-----------------------------------------------------------------------------
(* The sender: sendFiles and sendFile *)

\* a sendFiles call suspended inside sendFile(files[i])
Run(files) == [
    files  |-> files,   \* selectedFiles of the render that was clicked
    i      |-> 1,       \* the file being sent
    dc     |-> 0,       \* sendFile's local dc
    offset |-> 0,
    len    |-> 0,       \* byteLength of the slice read
    cfi    |-> 0,       \* currentFileIndex of the render that was clicked
    at     |-> "slice"  \* awaiting chunk.arrayBuffer() or "bufferedamountlow"
]

Suspend(s, run) == [s EXCEPT !.runs = Append(@, run)]

\* frames handed to send() so far, over every channel
RECURSIVE SentUpTo(_, _)
SentUpTo(s, d) == IF d = 0 THEN 0 ELSE Len(s.dcs[d].sentLog) + SentUpTo(s, d - 1)

TotalSent(s) == SentUpTo(s, Len(s.dcs))

\* sendFiles' catch without its setStatus
sendFailed_noStatus(s) ==
    [s EXCEPT !.error = "File transfer failed: send failed",
              !.sendFailures = @ + 1, !.sentAtFail = TotalSent(s)]

\* sendFiles' catch (lines 506-510): the loop over the files is left
sendFailed(s) ==
    [s EXCEPT !.error = "File transfer failed: send failed", !.status = "error",
              !.sendFailures = @ + 1, !.sentAtFail = TotalSent(s)]

RECURSIVE sendFile(_, _)
RECURSIVE endOfFile(_, _)

\* the while loop of sendFile at its test (line 533)
whileOffset_inclusive(s, run) ==
    IF run.offset <= run.files[run.i].size
    THEN Suspend(s, [run EXCEPT !.at = "slice"])
    ELSE endOfFile(s, run)

whileOffset(s, run) ==
    IF run.offset < run.files[run.i].size
    THEN Suspend(s, [run EXCEPT !.at = "slice"])
    ELSE endOfFile(s, run)

\* sendFile after its loop (lines 556-563), then the next turn of sendFiles' loop
endOfFile(s, run) ==
    IF run.i = Len(run.files)
    THEN LET s1 == [s EXCEPT !.status = "completed", !.selectedFiles = <<>>,
                             !.currentFileIndex = 0]
         IN  IF s1.sock # "none"
             THEN emit(s1, Msg("session-complete", s1.tokenRef, "", 0))
             ELSE s1
    ELSE sendFile([s EXCEPT !.currentFileIndex = run.cfi + 1], [run EXCEPT !.i = @ + 1])

\* sendFile(files[run.i]) up to its first await (lines 515-535)
sendFile(s, run) ==
    LET d == s.dcRef
        f == run.files[run.i]
    IN  IF d = 0 \/ s.dcs[d].readyState # "open"
        THEN LET s1 == [s EXCEPT !.error = "Waiting for peer connection..."]
             IN  IF run.i = Len(run.files) THEN s1
                 ELSE sendFile(s1, [run EXCEPT !.i = @ + 1])
        ELSE whileOffset(send(s, d, MetaFrame(f)), [run EXCEPT !.dc = d, !.offset = 0])

RECURSIVE SumSizes(_)
SumSizes(files) ==
    IF files = <<>> THEN 0 ELSE Head(files).size + SumSizes(Tail(files))

\* lines 548-553: sentBytes / totalBytes (x 100), with the selectedFiles and
\* the currentFileIndex of the render that was clicked
progressAfter(run) ==
    [num |-> SumSizes(SubSeq(run.files, 1, Min(run.cfi, Len(run.files))))
                + run.offset + run.len,
     den |-> SumSizes(run.files)]

\* lines 547-553: the chunk is handed to the channel
sendChunk(s, run) ==
    IF s.dcs[run.dc].readyState # "open"
    THEN sendFailed(s)
    ELSE LET s1 == [s EXCEPT !.dcs[run.dc] =
                               [@ EXCEPT !.preSend = BufferedAmount(s.dcs[run.dc])]]
             s2 == send(s1, run.dc, ChunkFrame(run.files[run.i], run.offset, run.len))
             s3 == [s2 EXCEPT !.sendProgress = progressAfter(run)]
         IN  whileOffset(s3, [run EXCEPT !.offset = @ + run.len])

\* lines 535-545: the slice is read; wait if the channel's buffer is above the
\* threshold
afterSlice(s, run) ==
    LET r == [run EXCEPT !.len = Min(CHUNK_SIZE, run.files[run.i].size - run.offset)]
    IN  IF BufferedAmount(s.dcs[r.dc]) > LowThreshold
        THEN Suspend(s, [r EXCEPT !.at = "bufferedamountlow"])
        ELSE sendChunk(s, r)

\* sendFiles up to its first await (lines 494-505)
sendFiles(s) ==
    IF s.selectedFiles = <<>> \/ s.dcRef = 0 \/ s.dcs[s.dcRef].readyState # "open"
    THEN [s EXCEPT !.error = "No files selected or connection not ready."]
    ELSE sendFile([s EXCEPT !.status = "transferring", !.sendStarted = @ + 1,
                            !.sendProgress = [num |-> 0, den |-> 1],
                            !.currentFileIndex = 0],
                  [Run(s.selectedFiles) EXCEPT !.cfi = s.currentFileIndex])

\* the runs waiting for bufferedamountlow on channel d resume, oldest first
RECURSIVE resumeWaiters(_, _, _)
resumeWaiters(s, d, k) ==
    IF k > Len(s.runs) THEN s
    ELSE IF s.runs[k].dc = d /\ s.runs[k].at = "bufferedamountlow"
    THEN resumeWaiters(sendChunk([s EXCEPT !.runs = Without(@, k)], s.runs[k]), d, k)
    ELSE resumeWaiters(s, d, k + 1)

-----------------------------------------------------------------------------
(* The receiver: onmessage and storeChunk *)

storeChunk_anySize(s, frame) ==
    LET s1 == [s EXCEPT !.recvChunks = Append(@, frame),
                        !.recvBytes = @ + frame.len]
    IN  IF s1.recvMeta.type = "meta"
        THEN LET blob == [name |-> s1.recvMeta.name, size |-> SumLen(s1.recvChunks),
                          parts |-> s1.recvChunks]
                 s2 == [s1 EXCEPT !.delivered = Append(@, blob),
                                  !.status = "completed"]
             IN  IF s2.sock # "none"
                 THEN emit(s2, Msg("session-complete", s2.tokenRef, "", 0))
                 ELSE s2
        ELSE s1

storeChunk(s, frame) ==
    LET s1 == [s EXCEPT !.recvChunks = Append(@, frame),
                        !.recvBytes = @ + frame.len]
    IN  IF s1.recvMeta.type = "meta" /\ s1.recvBytes >= s1.recvMeta.size
        THEN LET blob == [name |-> s1.recvMeta.name, size |-> SumLen(s1.recvChunks),
                          parts |-> s1.recvChunks]
                 s2 == [s1 EXCEPT !.delivered = Append(@, blob),
                                  !.status = "completed"]
             IN  IF s2.sock # "none"
                 THEN emit(s2, Msg("session-complete", s2.tokenRef, "", 0))
                 ELSE s2
        ELSE s1

onMessage_keepsChunks(s, frame) ==
    IF frame.kind = "meta"
    THEN IF frame.name = "" THEN s ELSE
         [s EXCEPT !.recvMeta = [type |-> "meta", name |-> frame.name,
                                 size |-> frame.size],
                   !.recvBytes = 0, !.status = "transferring"]
    ELSE IF frame.kind = "chunk" THEN storeChunk(s, frame)
    ELSE IF frame.kind = "convertible" THEN [s EXCEPT !.converting = Append(@, frame)]
    ELSE s

\* dc.onmessage (lines 434-462); a text frame is a JSON meta object; a binary
\* frame is an ArrayBuffer (kind chunk), an object with a byteLength whose
\* arrayBuffer() returns a promise (kind convertible), or a Blob (kind blob),
\* which has no byteLength and matches neither branch
onMessage(s, frame) ==
    IF frame.kind = "meta"
    THEN IF frame.name = "" THEN s ELSE
         [s EXCEPT !.recvMeta = [type |-> "meta", name |-> frame.name,
                                 size |-> frame.size],
                   !.recvChunks = <<>>, !.recvBytes = 0, !.status = "transferring"]
    ELSE IF frame.kind = "chunk" THEN storeChunk(s, frame)
    ELSE IF frame.kind = "convertible" THEN [s EXCEPT !.converting = Append(@, frame)]
    ELSE s

\* the message event of a channel whose onmessage is attached
Received(s2, frame) == [s2 EXCEPT !.received = Append(@, frame)]

-----------------------------------------------------------------------------
(* Actions: the transfer over an open channel *)

FileName(k) == CASE k = 1 -> "f1" [] k = 2 -> "f2" [] k = 3 -> "f3" [] OTHER -> "f4"

\* empty, one byte, 150 KB (two chunks and a short one), five whole chunks
\* (the channel's buffer filled to the threshold plus one chunk)
FileSizes == {0, 1, 150 * 1024, 5 * CHUNK_SIZE}

FileLists ==
    UNION { { [k \in 1..n |-> File(FileName(k), sizes[k])] : sizes \in [1..n -> FileSizes] } :
            n \in 1..MaxFiles }

\* the file input and the Send button are enabled
canSend(s) ==
    /\ s.dcRef # 0
    /\ s.dcs[s.dcRef].readyState = "open"
    /\ s.roleRef = "host"
    /\ s.status = "connected"

PickFiles(p) ==
    /\ peer[p].mounted
    /\ canSend(peer[p])
    /\ peer[p].selectedFiles = <<>>
    /\ \E files \in FileLists :
          Step(p, [peer[p] EXCEPT !.selectedFiles = files], "pickFiles", <<>>)

SendFilesClick(p) ==
    /\ peer[p].mounted
    /\ canSend(peer[p])
    /\ peer[p].selectedFiles # <<>>
    /\ Step(p, [sendFiles(peer[p]) EXCEPT !.runFiles = peer[p].selectedFiles],
            "sendFiles", <<>>)

\* chunk.arrayBuffer() of a suspended run resolves
SliceRead(p) ==
    /\ peer[p].mounted
    /\ \E k \in DOMAIN peer[p].runs :
          /\ peer[p].runs[k].at = "slice"
          /\ Step(p, afterSlice([peer[p] EXCEPT !.runs = Without(@, k)], peer[p].runs[k]),
                  "sliceRead", <<>>)

\* the transport takes the oldest buffered frame; bufferedamountlow is queued
\* when bufferedAmount falls from above the threshold to it or below
DcDrain(p) ==
    \E d \in DOMAIN peer[p].dcs :
        LET dc  == peer[p].dcs[d]
            dc2 == [dc EXCEPT !.buffer = Tail(@), !.wire = Append(@, Head(dc.buffer))]
        IN  /\ dc.buffer # <<>>
            /\ dc.readyState = "open"
            /\ Step(p, [peer[p] EXCEPT !.dcs[d] =
                          [dc2 EXCEPT !.lowEvent =
                              \/ @
                              \/ /\ BufferedAmount(dc) > LowThreshold
                                 /\ BufferedAmount(dc2) <= LowThreshold]],
                    "drain", <<>>)

\* the bufferedamountlow event is dispatched to the waiting runs
DcBufferedAmountLow(p) ==
    /\ peer[p].mounted
    /\ \E d \in DOMAIN peer[p].dcs :
          /\ peer[p].dcs[d].lowEvent
          /\ Step(p, resumeWaiters([peer[p] EXCEPT !.dcs[d] = [@ EXCEPT !.lowEvent = FALSE]],
                                   d, 1),
                  "bufferedamountlow", <<>>)

\* the oldest frame on the wire from p reaches the other end's onmessage
DcDeliver(p) ==
    \E d \in DOMAIN peer[p].dcs :
        LET q  == Other(p)
            dc == peer[p].dcs[d]
            r  == dc.remote
        IN  /\ dc.wire # <<>>
            /\ r # 0
            /\ peer[q].mounted
            /\ LET sq == IF peer[q].dcs[r].handlers /\ peer[q].dcs[r].readyState = "open"
                         THEN Received(onMessage(peer[q], Head(dc.wire)), Head(dc.wire))
                         ELSE peer[q]
               IN  /\ peer' = [peer EXCEPT ![p] = [@ EXCEPT !.dcs[d] =
                                                      [@ EXCEPT !.wire = Tail(@)]],
                                           ![q] = sq]
                   /\ Len(sq.out) <= MaxQueue
                   /\ lastOp' = [op |-> "message", p |-> q, arg |-> <<>>]
                   /\ UNCHANGED <<relayIn, relayReg, tokenArg, tokenResult>>

\* the host after createSession, registered, ready, its offer, the guest's
\* answer and one candidate, connected, channel open
ConnectedHost ==
    LET s0 == [createSessionOk(createSessionStart(InitPeer), T1)
                  EXCEPT !.sock = "connected"]
        s1 == onReady(onRegistered(s0, "host"))
        s2 == resume(resume(s1, 1, TRUE), 1, TRUE)
        s3 == resume(onSignal(s2, "answer", 1), 1, TRUE)
        s4 == resume(Signalled(s3, "ice", onSignal(s3, "ice", 1)), 1, TRUE)
        s5 == onDcOpen(onConnectionStateChange(s4, 1, "connected"), 1)
    IN  [s5 EXCEPT !.out = <<>>, !.dcs[1] = [@ EXCEPT !.remote = 1]]

\* the guest after joinSession, registered, ready, the host's offer and one
\* candidate, its answer, connected, channel announced and open
ConnectedGuest ==
    LET s0 == [joinSession(InitPeer, T1) EXCEPT !.sock = "connected"]
        s1 == onReady(onRegistered(s0, "guest"))
        s2 == resume(onSignal(s1, "offer", 1), 1, TRUE)
        s3 == resume(resume(s2, 1, TRUE), 1, TRUE)
        s4 == resume(Signalled(s3, "ice", onSignal(s3, "ice", 1)), 1, TRUE)
        s5 == onDataChannel(onConnectionStateChange(s4, 1, "connected"), 1, 1)
    IN  [onDcOpen(s5, 1) EXCEPT !.out = <<>>]

InitTransfer ==
    /\ peer = [p \in Peers |-> IF p = "A" THEN ConnectedHost ELSE ConnectedGuest]
    /\ relayIn = [p \in Peers |-> <<>>]
    /\ relayReg = <<"A", "B">>
    /\ lastOp = [op |-> "open", p |-> "A", arg |-> <<>>]
    /\ tokenArg = Undefined
    /\ tokenResult = "none"

NextTransfer ==
    \/ PickFiles("A")
    \/ SendFilesClick("A")
    \/ SliceRead("A")
    \/ DcDrain("A")
    \/ DcBufferedAmountLow("A")
    \/ DcDeliver("A")

\* host and guest connected; the host sends files, nothing fails; the
\* session-complete messages stay in the emit queues (at most MaxFiles each)
SpecTransfer == InitTransfer /\ [][NextTransfer]_vars

-----------------------------------------------------------------------------
(* Two peers end to end: the relay's message bus, ICE gathering, the link *)

\* local candidates a connection gathers
MaxCandidates == 1

\* pc.onicecandidate with a candidate (lines 360-365)
onIceCandidate(s, i, candidate) ==
    IF s.pcs[i].handlers /\ s.sock # "none"
    THEN emit(s, Msg("signal", s.pcs[i].token, "ice", candidate))
    ELSE s

\* candidates are gathered once the local description is set
IceGather(p) ==
    /\ peer[p].mounted
    /\ \E i \in DOMAIN peer[p].pcs :
          LET pc == peer[p].pcs[i]
          IN  /\ pc.localDescription
              /\ ~pc.closed
              /\ pc.gathered < MaxCandidates
              /\ Step(p, onIceCandidate([peer[p] EXCEPT !.pcs[i].gathered = @ + 1],
                                        i, pc.gathered + 1),
                      "icecandidate", <<>>)

\* the relay assigns host to the first registrant of a token, guest to the second
RelayRole(n) == IF n = 1 THEN "host" ELSE "guest"

RegisteredAt(reg, p) == CHOOSE i \in DOMAIN reg : reg[i] = p

\* the relay handles the oldest message p emitted: register is answered with
\* registered{role}, and with ready to both once two peers hold the token; a
\* signal is forwarded to the other peer; session-cancel and session-complete
\* are taken
RelayForward(p) ==
    /\ peer[p].out # <<>>
    /\ peer[p].sock = "connected"
    /\ LET m   == Head(peer[p].out)
           q   == Other(p)
           new == m.ev = "register" /\ \A i \in DOMAIN relayReg : relayReg[i] # p
           reg == IF new THEN Append(relayReg, p) ELSE relayReg
           in1 == IF m.ev = "register"
                  THEN [relayIn EXCEPT ![p] =
                           Append(@, Msg("registered", m.token,
                                         RelayRole(RegisteredAt(reg, p)), 0))]
                  ELSE IF m.ev = "signal" /\ Len(reg) = 2
                  THEN [relayIn EXCEPT ![q] = Append(@, m)]
                  ELSE relayIn
           in2 == IF new /\ Len(reg) = 2
                  THEN [r \in Peers |-> Append(in1[r], Msg("ready", m.token, "", 0))]
                  ELSE in1
       IN  /\ relayIn' = in2
           /\ relayReg' = reg
           /\ \A r \in Peers : Len(in2[r]) <= MaxQueue + 1
           /\ peer' = [peer EXCEPT ![p] = [@ EXCEPT !.out = Tail(@)]]
           /\ lastOp' = [op |-> "relayForward", p |-> p, arg |-> <<>>]
           /\ UNCHANGED <<tokenArg, tokenResult>>

\* the oldest message the relay holds for p reaches p's listener for it; an
\* ice candidate is named by its arrival number
RelayDeliver(p) ==
    /\ relayIn[p] # <<>>
    /\ peer[p].mounted
    /\ peer[p].sock = "connected"
    /\ LET m  == Head(relayIn[p])
           s  == peer[p]
           s2 == IF m.ev \notin s.listeners THEN s
                 ELSE CASE m.ev = "registered" -> onRegistered(s, m.type)
                        [] m.ev = "ready" -> onReady(s)
                        [] m.ev = "signal" ->
                              Signalled(s, m.type,
                                        onSignal(s, m.type,
                                                 IF m.type = "ice" THEN s.arrivals + 1
                                                 ELSE 0))
                        [] OTHER -> s
       IN  /\ peer' = [peer EXCEPT ![p] = s2]
           /\ Len(s2.out) <= MaxQueue
           /\ relayIn' = [relayIn EXCEPT ![p] = Tail(@)]
           /\ lastOp' = [op |-> m.ev, p |-> p, arg |-> <<>>]
           /\ UNCHANGED <<relayReg, tokenArg, tokenResult>>

\* both ends hold both descriptions and a candidate of the other end
LinkReady ==
    \A p \in Peers :
        /\ peer[p].pcRef # 0
        /\ LET pc == peer[p].pcs[peer[p].pcRef]
           IN  /\ ~pc.closed
               /\ pc.localDescription
               /\ pc.remoteDescription
               /\ pc.applied # <<>>

\* pc.onconnectionstatechange with connectionState "connected"
PcConnected(p) ==
    /\ peer[p].mounted
    /\ LinkReady
    /\ peer[p].pcs[peer[p].pcRef].connectionState = "new"
    /\ Step(p, onConnectionStateChange(peer[p], peer[p].pcRef, "connected"),
            "connectionstatechange", <<>>)

\* the open event of a channel this peer created
DcOpen(p) ==
    /\ peer[p].mounted
    /\ \E d \in DOMAIN peer[p].dcs :
          /\ peer[p].dcs[d].readyState = "connecting"
          /\ peer[p].pcs[peer[p].dcs[d].pc].connectionState = "connected"
          /\ Step(p, onDcOpen(peer[p], d), "open", <<>>)

\* the datachannel event at q for a channel the other peer created, followed
\* (in the same task) by the channel's open event
DataChannelEvent(q) ==
    LET p == Other(q)
    IN  /\ peer[q].mounted
        /\ \E d \in DOMAIN peer[p].dcs, i \in DOMAIN peer[q].pcs :
              /\ peer[p].dcs[d].remote = 0
              /\ peer[p].dcs[d].readyState # "closed"
              /\ peer[p].pcs[peer[p].dcs[d].pc].connectionState = "connected"
              /\ peer[q].pcs[i].connectionState = "connected"
              /\ peer[q].pcs[i].ondatachannel
              /\ LET s1 == onDataChannel(peer[q], i, d)
                     s2 == onDcOpen(s1, s1.dcRef)
                 IN  /\ peer' = [peer EXCEPT ![q] = s2,
                                             ![p] = [@ EXCEPT !.dcs[d].remote = s1.dcRef]]
                     /\ lastOp' = [op |-> "datachannel", p |-> q, arg |-> <<>>]
                     /\ UNCHANGED <<relayIn, relayReg, tokenArg, tokenResult>>

\* the host clicks Create Session on a fresh page
HostCreates(p) ==
    /\ peer[p].status = "idle"
    /\ peer[p].tokenRef = NoToken
    /\ CreateSession(p)

\* the guest joins with the token of the host's page, which shows it once the
\* host has it; the relay has registered the host by then
GuestJoins(q) ==
    /\ peer[q].mounted
    /\ peer[q].status = "idle"
    /\ peer[q].tokenRef = NoToken
    /\ peer[Other(q)].tokenRef # NoToken
    /\ relayReg = <<Other(q)>>
    /\ Step(q, joinSession(peer[q], peer[Other(q)].tokenRef), "joinSession",
            peer[Other(q)].tokenRef)

\* the host selects one file
PickOneFile(p) ==
    /\ peer[p].mounted
    /\ canSend(peer[p])
    /\ peer[p].selectedFiles = <<>>
    /\ \E size \in FileSizes :
          Step(p, [peer[p] EXCEPT !.selectedFiles = <<File(FileName(1), size)>>],
               "pickFiles", <<>>)

NextE2E ==
    \/ HostCreates("A")
    \/ FetchOk("A")
    \/ GuestJoins("B")
    \/ \E p \in Peers : SocketConnect(p)
    \/ \E p \in Peers : RelayForward(p)
    \/ \E p \in Peers : RelayDeliver(p)
    \/ \E p \in Peers : PcOpResolves(p)
    \/ \E p \in Peers : IceGather(p)
    \/ \E p \in Peers : PcConnected(p)
    \/ DcOpen("A")
    \/ DataChannelEvent("B")
    \/ PickOneFile("A")
    \/ SendFilesClick("A")
    \/ SliceRead("A")
    \/ DcDrain("A")
    \/ DcBufferedAmountLow("A")
    \/ DcDeliver("A")

\* a host and a guest from fresh pages, a relay that forwards in order, and
\* connection and channel primitives that do not fail; the host sends one file
SpecE2E == InitPeers /\ [][NextE2E]_vars

NextNegotiate ==
    \/ HostCreates("A")
    \/ FetchOk("A")
    \/ GuestJoins("B")
    \/ \E p \in Peers : SocketConnect(p)
    \/ \E p \in Peers : RelayForward(p)
    \/ \E p \in Peers : RelayDeliver(p)
    \/ \E p \in Peers : PcOpResolves(p)
    \/ \E p \in Peers : PcOpRejects(p)
    \/ \E p \in Peers : IceGather(p)

\* a host and a guest from fresh pages negotiate through a relay that forwards
\* in order; an awaited operation of a connection may fail
SpecNegotiate == InitPeers /\ [][NextNegotiate]_vars

-----------------------------------------------------------------------------
(* The transfer with failures: a slice that cannot be read, a channel that
   closes under the run *)

\* dc.onclose (lines 421-427); `status` is the one its closure saw
onDcClose(s, d) ==
    IF s.dcs[d].handlers /\ s.dcs[d].seenStatus = "transferring"
    THEN [s EXCEPT !.error = "Transfer interrupted: data channel closed unexpectedly",
                   !.status = "error"]
    ELSE s

\* chunk.arrayBuffer() of a suspended run rejects
SliceReadFails(p) ==
    /\ peer[p].mounted
    /\ \E k \in DOMAIN peer[p].runs :
          /\ peer[p].runs[k].at = "slice"
          /\ Step(p, sendFailed([peer[p] EXCEPT !.runs = Without(@, k)]),
                  "sliceReadFails", <<>>)

\* the channel is closed from the other end (or its transport is lost) and
\* its close event fires; bufferedAmount keeps its value
DcCloses(p) ==
    /\ peer[p].mounted
    /\ \E d \in DOMAIN peer[p].dcs :
          /\ peer[p].dcs[d].readyState = "open"
          /\ Step(p, onDcClose([peer[p] EXCEPT !.dcs[d] =
                                   [@ EXCEPT !.readyState = "closed"]], d),
                  "close", <<>>)

\* cancelTransfer without its cleanupRTC
cancelTransfer_noCleanup(s) ==
    LET s1 == IF s.dcRef # 0 /\ s.dcs[s.dcRef].readyState = "open"
              THEN [s EXCEPT !.dcs[s.dcRef] = CloseDc(@)]
              ELSE s
    IN  [s1 EXCEPT !.status = "idle", !.selectedFiles = <<>>,
                   !.currentFileIndex = 0]

\* cancelTransfer (lines 594-604)
cancelTransfer(s) ==
    LET s1 == IF s.dcRef # 0 /\ s.dcs[s.dcRef].readyState = "open"
              THEN [s EXCEPT !.dcs[s.dcRef] = CloseDc(@)]
              ELSE s
    IN  [cleanupRTC(s1) EXCEPT !.status = "idle", !.selectedFiles = <<>>,
                               !.currentFileIndex = 0]

\* the Cancel button is rendered for the host and enabled while status is
\* transferring or connected (lines 797-803)
CancelClick(p) ==
    /\ peer[p].mounted
    /\ peer[p].roleRef = "host"
    /\ peer[p].status \in {"transferring", "connected"}
    /\ Step(p, cancelTransfer(peer[p]), "cancelTransfer", <<>>)

NextTransferFail ==
    \/ PickFiles("A")
    \/ SendFilesClick("A")
    \/ SliceRead("A")
    \/ SliceReadFails("A")
    \/ DcDrain("A")
    \/ DcBufferedAmountLow("A")
    \/ DcCloses("A")
    \/ CancelClick("A")

\* the sending side alone: the host sends files over the open channel; a
\* slice read may fail, the channel may close and the host may cancel at any
\* moment
SpecTransferFail == InitTransfer /\ [][NextTransferFail]_vars

-----------------------------------------------------------------------------
(* The receiver alone: any frame may arrive on its open channel *)

MaxFrames == 4

\* the frames the other end may send as the n-th one: the meta frame of an
\* empty file, of a file of two whole chunks or of a one-byte file, a meta
\* frame with an empty name, or a binary frame of one byte or of a whole
\* chunk, named by its arrival number
EnvFrames(n) ==
    { MetaFrame(File(FileName(1), 0)), MetaFrame(File(FileName(1), 2 * CHUNK_SIZE)),
      MetaFrame(File(FileName(2), 1)), MetaFrame(File("", 1)) }
    \cup { [ChunkFrame(File("", 0), 0, len) EXCEPT !.offset = n] : len \in {1, CHUNK_SIZE} }

EnvFrame(p) ==
    /\ peer[p].mounted
    /\ Len(peer[p].received) < MaxFrames
    /\ \E d \in DOMAIN peer[p].dcs :
          /\ peer[p].dcs[d].handlers
          /\ peer[p].dcs[d].readyState = "open"
          /\ \E frame \in EnvFrames(Len(peer[p].received) + 1) :
                Step(p, Received(onMessage(peer[p], frame), frame), "message", <<>>)

\* the receiver is the guest or, with another program at the other end, the host
InitReceive ==
    /\ peer \in { [p \in Peers |-> IF p = "A" THEN ConnectedHost ELSE b] :
                   b \in {ConnectedGuest, ConnectedHost} }
    /\ relayIn = [p \in Peers |-> <<>>]
    /\ relayReg = <<"A", "B">>
    /\ lastOp = [op |-> "open", p |-> "B", arg |-> <<>>]
    /\ tokenArg = Undefined
    /\ tokenResult = "none"

NextReceive ==
    \/ EnvFrame("B")
    \/ RelayTake("B")
    \/ DcCloses("B")
    \/ CancelClick("B")
    \/ ResetClick("B")
    \/ EnvSessionDestroyed("B")
    \/ Unmount("B")

\* one connected peer receives up to MaxFrames frames in any order; the
\* channel may close, the session may be destroyed, the page may be left and a
\* host may cancel or reset
SpecReceive == InitReceive /\ [][NextReceive]_vars

(* The sender while the connection's state changes *)

MaxRuns == 2

\* pc.onconnectionstatechange: an established connection loses and regains
\* connectivity
PcStateFlips(p) ==
    /\ peer[p].mounted
    /\ \E i \in DOMAIN peer[p].pcs, state \in {"connected", "disconnected"} :
          /\ ~peer[p].pcs[i].closed
          /\ peer[p].pcs[i].connectionState # state
          /\ Step(p, onConnectionStateChange(peer[p], i, state),
                  "connectionstatechange", <<>>)

\* the Send button, for up to MaxRuns runs
SendAgain(p) ==
    /\ peer[p].sendStarted < MaxRuns
    /\ SendFilesClick(p)

\* host and guest connected; the host has selected one file
InitResend ==
    /\ peer \in { [p \in Peers |->
                     IF p = "A"
                     THEN [ConnectedHost EXCEPT
                              !.selectedFiles = <<File(FileName(1), size)>>]
                     ELSE ConnectedGuest] : size \in FileSizes }
    /\ relayIn = [p \in Peers |-> <<>>]
    /\ relayReg = <<"A", "B">>
    /\ lastOp = [op |-> "pickFiles", p |-> "A", arg |-> <<>>]
    /\ tokenArg = Undefined
    /\ tokenResult = "none"

NextResend ==
    \/ SendAgain("A")
    \/ SliceRead("A")
    \/ DcDrain("A")
    \/ DcBufferedAmountLow("A")
    \/ PcStateFlips("A")

\* the host sends the selected file over the open channel, and again while
\* the first run is suspended (up to MaxRuns runs), as the connection's state
\* goes from connected to disconnected and back
SpecResend == InitResend /\ [][NextResend]_vars

-----------------------------------------------------------------------------
(* The receiver with binary frames that are not ArrayBuffers *)

\* a binary frame that is not an ArrayBuffer, named by its arrival number
OtherBinary(kind, n, len) ==
    [ChunkFrame(File("", 0), 0, len) EXCEPT !.kind = kind, !.offset = n]

EnvFramesAsync(n) ==
    { MetaFrame(File(FileName(1), 2 * CHUNK_SIZE)), MetaFrame(File(FileName(2), 1)),
      OtherBinary("blob", n, 1) }
    \cup { OtherBinary("convertible", n, len) : len \in {1, CHUNK_SIZE} }

EnvFrameAsync(p) ==
    /\ peer[p].mounted
    /\ Len(peer[p].received) < MaxFrames
    /\ \E d \in DOMAIN peer[p].dcs :
          /\ peer[p].dcs[d].handlers
          /\ peer[p].dcs[d].readyState = "open"
          /\ \E frame \in EnvFramesAsync(Len(peer[p].received) + 1) :
                Step(p, Received(onMessage(peer[p], frame), frame), "message", <<>>)

\* a pending arrayBuffer() promise is fulfilled: .then(storeChunk), line 449
ConversionResolves(p) ==
    /\ peer[p].mounted
    /\ \E k \in DOMAIN peer[p].converting :
          Step(p, storeChunk([peer[p] EXCEPT !.converting = Without(@, k)],
                             peer[p].converting[k]),
               "converted", <<>>)

NextReceiveAsync ==
    \/ EnvFrameAsync("B")
    \/ ConversionResolves("B")
    \/ RelayTake("B")

\* the receiver's binary frames are not ArrayBuffers
SpecReceiveAsync == InitReceive /\ [][NextReceiveAsync]_vars

-----------------------------------------------------------------------------
(* Properties of the session with the relay *)

\* the code units of "0123456789abcdefABCDEF"
HexDigitUnits ==
    {48, 49, 50, 51, 52, 53, 54, 55, 56, 57,
     97, 98, 99, 100, 101, 102, 65, 66, 67, 68, 69, 70}

IsHex16(s) == Len(s) = 16 /\ \A i \in 1..Len(s) : s[i] \in HexDigitUnits

\* C5: once status is completed, a relay disconnect (whatever its reason)
\* leaves status completed.
C5_DisconnectKeepsCompleted ==
    [][(peer["A"].status = "completed" /\ lastOp'.op = "disconnect")
          => peer'["A"].status = "completed"]_vars

\* C6: when the waiting watchdog has fired, status is error with the timeout
\* message and the session is torn down: listeners removed, connection and
\* channel released.
C6_WatchdogEndsInError ==
    lastOp.op = "waitingTimeout" =>
        /\ peer["A"].status = "error"
        /\ peer["A"].error = "Connection timeout: peer did not connect in time."
        /\ peer["A"].listeners = {}
        /\ peer["A"].pcRef = 0
        /\ peer["A"].dcRef = 0

\* C7: joinSession with an input that is not 16 hexadecimal characters after
\* trimming ends in status error with the invalid-token message, emits nothing
\* to the relay and opens no relay connection, whatever the state before.
C7_InvalidJoinMakesNoNetworkCall ==
    [][(lastOp'.op = "joinSession" /\ ~IsHex16(Trim(lastOp'.arg)))
          => /\ peer'["A"].status = "error"
             /\ peer'["A"].error = "Invalid token."
             /\ peer'["A"].out = peer["A"].out
             /\ peer'["A"].sock = peer["A"].sock]_vars

\* C8: isValidToken is true exactly for strings of 16 characters, each one of
\* 0-9, a-f, A-F, and false for every other value.
C8_IsValidTokenExact ==
    tokenResult # "none" =>
        ((tokenResult = "true") <=> (tokenArg.t = "string" /\ IsHex16(tokenArg.s)))

\* a 16-character token with an upper-case digit has been accepted
C8_Witness ==
    /\ tokenResult = "true"
    /\ \E i \in 1..Len(tokenArg.s) : tokenArg.s[i] = 70

\* a session is active: a token is held and the session's listeners are wired
SessionActive(s) == s.tokenRef # NoToken /\ "registered" \in s.listeners

\* C10: every reconnection while a session is active emits register with the
\* held token, in every session on the socket.
C10_ReconnectReRegisters ==
    [][(lastOp'.op = "reconnect" /\ SessionActive(peer["A"]))
          => peer'["A"].out =
                Append(peer["A"].out, Msg("register", peer["A"].tokenRef, "", 0))]_vars

-----------------------------------------------------------------------------
(* Properties of the ICE candidate queue *)

Range(seq) == {seq[i] : i \in DOMAIN seq}

RECURSIVE FirstOccurrences(_)
FirstOccurrences(seq) ==
    IF seq = <<>> THEN <<>>
    ELSE LET init == FirstOccurrences(SubSeq(seq, 1, Len(seq) - 1))
             last == seq[Len(seq)]
         IN  IF last \in Range(init) THEN init ELSE Append(init, last)

IsPrefix(a, b) == Len(a) <= Len(b) /\ a = SubSeq(b, 1, Len(a))

\* candidate c is still to be passed to addIceCandidate by a running flush loop
AwaitsFlush(s, c) ==
    \E k \in DOMAIN s.pending :
        LET h == s.pending[k]
        IN  /\ h.fn = "signal"
            /\ h.at = "flush"
            /\ \E j \in (h.idx + 1)..Len(LoopArray(s, h)) : LoopArray(s, h)[j] = c

Flushing(s) ==
    \E k \in DOMAIN s.pending : s.pending[k].fn = "signal" /\ s.pending[k].at = "flush"

\* the early candidates passed to addIceCandidate so far, in the order of the calls
EarlyApplied(s) ==
    FirstOccurrences(SelectSeq(s.pcs[s.pcRef].applied,
                               LAMBDA c : c \in Range(s.earlyIce)))

\* C1: every ICE candidate that arrives while the connection has no remote
\* description is kept (in the queue, or with a running flush, or already
\* passed to addIceCandidate); once the remote description is applied the
\* queue is flushed, and the buffered candidates reach addIceCandidate in
\* their arrival order.
C1_EarlyIceBufferedAndFlushedInOrder ==
    LET s == peer["A"]
    IN  s.pcRef # 0 =>
          /\ \A c \in Range(s.earlyIce) :
                \/ c \in Range(s.iceQueue)
                \/ c \in Range(s.pcs[s.pcRef].applied)
                \/ AwaitsFlush(s, c)
          /\ ~s.pcs[s.pcRef].remoteDescription => s.iceQueue = s.earlyIce
          /\ (s.pcs[s.pcRef].remoteDescription /\ ~Flushing(s)) => s.iceQueue = <<>>
          /\ IsPrefix(EarlyApplied(s), s.earlyIce)

\* two candidates were buffered, the remote description was applied and the
\* flush has passed both to addIceCandidate
C1_Witness ==
    LET s == peer["A"]
    IN  /\ s.pcRef # 0
        /\ Len(s.earlyIce) >= 2
        /\ s.pcs[s.pcRef].remoteDescription
        /\ ~Flushing(s)
        /\ EarlyApplied(s) = s.earlyIce

-----------------------------------------------------------------------------
(* Properties of the transfer *)

\* ceil(size / CHUNK_SIZE)
NumChunks(f) == (f.size + CHUNK_SIZE - 1) \div CHUNK_SIZE

\* the frames of one file: its meta frame, then its chunks in offset order,
\* each of CHUNK_SIZE bytes except possibly the last
FramesOf(f) ==
    <<MetaFrame(f)>> \o
    [k \in 1..NumChunks(f) |->
        ChunkFrame(f, (k - 1) * CHUNK_SIZE,
                   IF k < NumChunks(f) THEN CHUNK_SIZE ELSE f.size - (k - 1) * CHUNK_SIZE)]

RECURSIVE FramesOfAll(_)
FramesOfAll(files) ==
    IF files = <<>> THEN <<>> ELSE FramesOf(Head(files)) \o FramesOfAll(Tail(files))

RECURSIVE TotalChunks(_)
TotalChunks(files) ==
    IF files = <<>> THEN 0 ELSE NumChunks(Head(files)) + TotalChunks(Tail(files))

\* the host's sendFiles run has returned
RunFinished(s) == s.sendStarted = 1 /\ s.runs = <<>>

\* ... and every frame it sent has been handled by the other end
TransferQuiet ==
    /\ RunFinished(peer["A"])
    /\ \A d \in DOMAIN peer["A"].dcs :
          peer["A"].dcs[d].buffer = <<>> /\ peer["A"].dcs[d].wire = <<>>

\* C2: for files of sizes s1..sn (0 included), sent without failure, the
\* receiver finalizes exactly n files, in order, of exactly those sizes.
C2_ReceiverFinalizesEveryFile ==
    TransferQuiet =>
        /\ Len(peer["B"].delivered) = Len(peer["A"].runFiles)
        /\ \A i \in DOMAIN peer["B"].delivered :
              /\ peer["B"].delivered[i].name = peer["A"].runFiles[i].name
              /\ peer["B"].delivered[i].size = peer["A"].runFiles[i].size

\* C3: the frames a run hands to the channel are, file by file, one meta frame
\* and then ceil(size / CHUNK_SIZE) chunks in offset order, each of CHUNK_SIZE
\* bytes except possibly the last: n meta frames and sum of ceil(si / c)
\* chunks in total.
C3_FrameSequence ==
    LET s == peer["A"]
    IN  \A d \in DOMAIN s.dcs :
          /\ IsPrefix(s.dcs[d].sentLog, FramesOfAll(s.runFiles))
          /\ (RunFinished(s) /\ d = 1) =>
                /\ s.dcs[d].sentLog = FramesOfAll(s.runFiles)
                /\ Len(s.dcs[d].sentLog) = Len(s.runFiles) + TotalChunks(s.runFiles)

\* a run over two files, the first of 150 KB (three chunks, the last short),
\* has returned
C3_Witness ==
    /\ RunFinished(peer["A"])
    /\ Len(peer["A"].runFiles) = 2
    /\ peer["A"].runFiles[1].size = 150 * 1024
    /\ Len(peer["A"].dcs[1].sentLog) = 2 + 3 + NumChunks(peer["A"].runFiles[2])

\* C4 as claimed: bufferedAmount never exceeds the threshold by more than one
\* chunk, across file boundaries as well.
C4_BufferedWithinOneChunk ==
    \A d \in DOMAIN peer["A"].dcs :
        BufferedAmount(peer["A"].dcs[d]) <= LowThreshold + CHUNK_SIZE

-----------------------------------------------------------------------------
(* Properties of the end-to-end run *)

\* the host's run has returned and nothing is in flight: no relay message, no
\* awaited operation, no frame
E2EQuiet ==
    /\ RunFinished(peer["A"])
    /\ \A p \in Peers :
          /\ peer[p].out = <<>>
          /\ relayIn[p] = <<>>
          /\ peer[p].pending = <<>>
    /\ \A d \in DOMAIN peer["A"].dcs :
          peer["A"].dcs[d].buffer = <<>> /\ peer["A"].dcs[d].wire = <<>>

\* C9: host creates, guest joins, both get ready, negotiation completes and
\* the channel opens; when the host has sent one file and everything sent has
\* arrived, the guest has finalized one file of exactly the declared size and
\* both peers are in status completed.
C9_EndToEndOneFile ==
    E2EQuiet =>
        /\ Len(peer["B"].delivered) = 1
        /\ peer["B"].delivered[1].name = peer["A"].runFiles[1].name
        /\ peer["B"].delivered[1].size = peer["A"].runFiles[1].size
        /\ peer["A"].status = "completed"
        /\ peer["B"].status = "completed"

-----------------------------------------------------------------------------
(* Properties of errors, teardown and the link *)

\* C11: a transient relay disconnect followed by a successful reconnection
\* leaves no user-visible error: when the socket has reconnected, status is
\* not error with the disconnect message.
C11_ReconnectedWithoutError ==
    lastOp.op = "reconnect" =>
        ~(/\ peer["A"].status = "error"
          /\ peer["A"].error = "Disconnected from signaling server.")

\* C12: when sending fails while a file of a run is being sent, no frame is
\* handed to the channel afterwards, status is error with the transfer-failure
\* message, and the run produces neither status completed nor session-complete.
C12_FailureAbortsRemainingFiles ==
    LET s == peer["A"]
    IN  s.sendFailures > 0 =>
          /\ TotalSent(s) = s.sentAtFail
          /\ s.runs = <<>>
          /\ s.status = "error"
          /\ s.error = "File transfer failed: send failed"
          /\ \A k \in DOMAIN s.out : s.out[k].ev # "session-complete"

\* a run over two files failed before the second file's meta frame was sent
C12_Witness ==
    LET s == peer["A"]
    IN  /\ s.sendFailures = 1
        /\ Len(s.runFiles) = 2
        /\ s.runFiles[1].size > CHUNK_SIZE
        /\ \A k \in DOMAIN s.dcs[1].sentLog : s.dcs[1].sentLog[k].name = "f1"
        /\ Len(s.dcs[1].sentLog) >= 2

RECURSIVE ChunkBytes(_)
ChunkBytes(frames) ==
    IF frames = <<>> THEN 0
    ELSE (IF Head(frames).kind = "chunk" THEN Head(frames).len ELSE 0)
         + ChunkBytes(Tail(frames))

\* C13: once a chunk of the run has been sent, the reported progress is the
\* bytes sent so far over all files of the run (the files fully sent plus the
\* part of the current file) divided by the sum of all file sizes.
C13_ProgressIsCumulative ==
    LET s == peer["A"]
    IN  (s.sendStarted = 1 /\ ChunkBytes(s.dcs[1].sentLog) > 0) =>
           /\ s.sendProgress.den = SumSizes(s.runFiles)
           /\ s.sendProgress.num = ChunkBytes(s.dcs[1].sentLog)

\* C14: once status is error it stays error under every relay, connection,
\* channel and browser event (the specification holds no reset action).
C14_ErrorStaysUntilReset ==
    [][peer["A"].status = "error" => peer'["A"].status = "error"]_vars

C16_CreateFailureTouchesNoRelay ==
    [][lastOp'.op = "createSessionFail"
          => /\ peer'["A"].status = "error"
             /\ peer'["A"].error \in {"Failed to create session", "Failed to fetch"}
             /\ peer'["A"].sessionToken = peer["A"].sessionToken
             /\ peer'["A"].tokenRef = peer["A"].tokenRef
             /\ peer'["A"].sock = peer["A"].sock
             /\ peer'["A"].listeners = peer["A"].listeners
             /\ peer'["A"].out = peer["A"].out]_vars

\* a request failed on a page whose socket is connected (from an earlier
\* session) and carries no session listener
C16_Witness ==
    /\ lastOp.op = "createSessionFail"
    /\ peer["A"].status = "error"
    /\ peer["A"].sock = "connected"
    /\ "registered" \notin peer["A"].listeners

\* C17: status is connected only while the data channel is open and the
\* connection's state is connected.
C17_ConnectedNeedsBoth ==
    \A p \in Peers :
        LET s == peer[p]
        IN  s.status = "connected" =>
              /\ s.dcRef # 0
              /\ s.dcs[s.dcRef].readyState = "open"
              /\ s.pcRef # 0
              /\ s.pcs[s.pcRef].connectionState = "connected"

\* C18: when the channel reports close while status is transferring (and no
\* local teardown closed it), status becomes error with the
\* transfer-interrupted message.
C18_CloseDuringTransferIsError ==
    [][(lastOp'.op = "close" /\ peer["A"].status = "transferring")
          => /\ peer'["A"].status = "error"
             /\ peer'["A"].error =
                   "Transfer interrupted: data channel closed unexpectedly"]_vars

\* C19: teardown detaches the handlers of the channel and of the connection
\* before it calls close on them, and once teardown has detached a channel's
\* handlers no callback of that channel runs: an event of the channel resumes
\* no waiting run.
C19_DetachBeforeClose ==
    [][/\ \A d \in DOMAIN peer'["A"].dcs : ~peer'["A"].dcs[d].closedAttached
       /\ \A i \in DOMAIN peer'["A"].pcs : ~peer'["A"].pcs[i].closedAttached
       /\ lastOp'.op = "bufferedamountlow" =>
             \A k \in DOMAIN peer["A"].runs :
                 (/\ peer["A"].runs[k].at = "bufferedamountlow"
                  /\ ~peer["A"].dcs[peer["A"].runs[k].dc].handlers)
                 => /\ k \in DOMAIN peer'["A"].runs
                    /\ peer'["A"].runs[k] = peer["A"].runs[k]]_vars

\* C20: whenever negotiation has started, at most one connection has handlers
\* attached (the earlier ones were destroyed), and every candidate in the ICE
\* queue arrived for the current connection.
C20_OneLiveConnection ==
    LET s == peer["A"]
    IN  /\ Cardinality({i \in DOMAIN s.pcs : s.pcs[i].handlers /\ ~s.pcs[i].closed}) <= 1
        /\ \A k \in DOMAIN s.iceQueue : s.arrivedFor[s.iceQueue[k]] = s.pcRef

-----------------------------------------------------------------------------
(* Properties of negotiation *)

\* C21: in every state, the states between the awaits of the signal listener
\* included, the ICE candidate queue is non-empty only while the current
\* connection has no remote description.
C21_QueueOnlyBeforeRemoteDescription ==
    LET s == peer["A"]
    IN  (s.pcRef # 0 /\ s.pcs[s.pcRef].remoteDescription) => s.iceQueue = <<>>

\* p's step appends a signal of the given type to what p emits
Emits(p, type) ==
    /\ Len(peer'[p].out) = Len(peer[p].out) + 1
    /\ LET m == peer'[p].out[Len(peer'[p].out)]
       IN  m.ev = "signal" /\ m.type = type

\* the connection i of s has a channel that s created
CreatedChannel(s, i) ==
    \E d \in DOMAIN s.dcs : s.dcs[d].pc = i /\ s.dcs[d].remote = 0

\* C22: with both peers registered and ready received, an offer is emitted
\* only by the host, for the one connection of the session, which has the
\* data channel the host created, in the step that applies the offer locally
\* (so once per connection); the guest emits no offer.
C22_OneOfferByHost ==
    [][\A p \in Peers :
          /\ Len(peer'[p].pcs) <= 1
          /\ Emits(p, "offer") =>
                /\ peer[p].roleRef = "host"
                /\ p = "A"
                /\ peer[p].pcRef = 1
                /\ CreatedChannel(peer[p], 1)
                /\ ~peer[p].pcs[1].localDescription
                /\ peer'[p].pcs[1].localDescription]_vars

C22_Witness ==
    /\ lastOp.op = "resolve"
    /\ lastOp.p = "A"
    /\ peer["A"].out # <<>>
    /\ peer["A"].out[Len(peer["A"].out)].type = "offer"
    /\ peer["A"].pcs[1].localDescription
    /\ peer["B"].pcRef = 1

\* the step resumes the k-th suspended function of A, a signal listener
SignalResumes(k, ok) ==
    /\ peer["A"].pending[k].fn = "signal"
    /\ lastOp'.op = (IF ok THEN "resolve" ELSE "reject")
    /\ peer'["A"] = resume(peer["A"], k, ok)

\* C23: the signal listener emits nothing in the step that receives a signal;
\* resumed, it emits only for an offer, one answer, in the step that applies
\* the created answer locally, with the offer applied as remote description;
\* the listener has returned then.  It emits nothing for an answer or an ice
\* signal, and nothing when an awaited operation fails.
C23_OneAnswerPerOffer ==
    [][LET s == peer["A"]
       IN  /\ lastOp'.op = "signal" => peer'["A"].out = s.out
           /\ \A k \in DOMAIN s.pending, ok \in BOOLEAN :
                 SignalResumes(k, ok) =>
                    LET h == s.pending[k]
                    IN  IF ok /\ h.type = "offer" /\ h.at = "setLocalDescription"
                        THEN /\ peer'["A"].out =
                                   Append(s.out, Msg("signal", s.tokenRef, "answer", 0))
                             /\ s.pcs[h.pc].remoteDescription
                             /\ peer'["A"].pcs[h.pc].localDescription
                             /\ Len(peer'["A"].pending) = Len(s.pending) - 1
                        ELSE peer'["A"].out = s.out]_vars

C23_Witness ==
    LET s == peer["A"]
    IN  /\ lastOp.op = "resolve"
        /\ s.out # <<>>
        /\ s.out[Len(s.out)].type = "answer"
        /\ s.pcs[s.pcRef].remoteDescription
        /\ s.pcs[s.pcRef].localDescription

\* the suspended listener h of s continues with a createAnswer
AnswerUnderWay(s, h) ==
    \E j \in DOMAIN s.pending :
        /\ s.pending[j].fn = "signal"
        /\ s.pending[j].pc = h.pc
        /\ s.pending[j].type = "offer"
        /\ s.pending[j].at = "createAnswer"

\* C24: when addIceCandidate fails, for a candidate applied on arrival or in
\* a queue flush, status and the message are left as they were; in a flush
\* the next queued candidate is applied, and after the last one the queue is
\* emptied and, for an offer, the answer is created.
C24_CandidateFailureIsNotFatal ==
    [][LET s == peer["A"]
       IN  \A k \in DOMAIN s.pending :
              (SignalResumes(k, FALSE) /\ s.pending[k].at \in {"flush", "addIceCandidate"}) =>
                 LET h     == s.pending[k]
                     items == LoopArray(s, h)
                     t     == peer'["A"]
                 IN  /\ t.status = s.status
                     /\ t.error = s.error
                     /\ h.at = "flush" =>
                           IF h.idx < Len(items)
                           THEN /\ t.pcs[h.pc].applied =
                                      Append(s.pcs[h.pc].applied, items[h.idx + 1])
                                /\ \E j \in DOMAIN t.pending :
                                      /\ t.pending[j].at = "flush"
                                      /\ t.pending[j].idx = h.idx + 1
                           ELSE /\ t.iceQueue = <<>>
                                /\ h.type = "offer" => AnswerUnderWay(t, h)]_vars

\* a queued candidate has just failed in a flush and the next queued one is
\* being applied, status untouched
C24_Witness ==
    LET s == peer["A"]
    IN  /\ lastOp.op = "reject"
        /\ s.status # "error"
        /\ \E j \in DOMAIN s.pending :
              /\ s.pending[j].at = "flush"
              /\ s.pending[j].idx = 2
              /\ Len(s.pcs[s.pending[j].pc].applied) = 2

-----------------------------------------------------------------------------
(* Properties of the receiver *)

RECURSIVE LastMeta(_)
\* position in the log of the last meta frame that replaced the context, or 0
LastMeta(log) ==
    IF log = <<>> THEN 0
    ELSE IF log[Len(log)].kind = "meta" /\ log[Len(log)].name # "" THEN Len(log)
    ELSE LastMeta(SubSeq(log, 1, Len(log) - 1))

IsChunk(frame) == frame.kind = "chunk"

\* the binary frames that arrived after the last meta frame
ChunksSinceMeta(log) == SelectSeq(SubSeq(log, LastMeta(log) + 1, Len(log)), IsChunk)

\* the step hands a file to the consumer
Delivers(p) == Len(peer'[p].delivered) = Len(peer[p].delivered) + 1

\* C26: a meta frame replaces the reception context, whatever the previous
\* file's state: the byte counter is 0, the chunk buffer empty, the current
\* meta the new one, and nothing is delivered by it.  Every delivered file
\* has the name of the last meta frame and consists of exactly the binary
\* frames that arrived after that meta frame.
C26_MetaReplacesContext ==
    [][LET s == peer["B"]
           t == peer'["B"]
           n == Len(t.received)
       IN  (t.received # s.received) =>
             /\ (t.received[n].kind = "meta" /\ t.received[n].name # "") =>
                   /\ t.recvBytes = 0
                   /\ t.recvChunks = <<>>
                   /\ t.recvMeta = [type |-> "meta", name |-> t.received[n].name,
                                    size |-> t.received[n].size]
                   /\ t.delivered = s.delivered
             /\ Delivers("B") =>
                   LET blob == t.delivered[Len(t.delivered)]
                       k    == LastMeta(t.received)
                   IN  /\ k > 0
                       /\ blob.name = t.received[k].name
                       /\ blob.parts = ChunksSinceMeta(t.received)]_vars

\* a file was left incomplete by the next meta frame, whose file was delivered
C26_Witness ==
    LET s == peer["B"]
        k == LastMeta(s.received)
    IN  /\ lastOp.op = "message"
        /\ Len(s.delivered) = 1
        /\ k > 2
        /\ s.received[1].kind = "meta"
        /\ s.received[1].size = 2 * CHUNK_SIZE
        /\ s.received[2].kind = "chunk"
        /\ s.delivered[1].parts = ChunksSinceMeta(s.received)

\* s has a channel that is open with its handlers attached
Listening(s) ==
    \E d \in DOMAIN s.dcs : s.dcs[d].handlers /\ s.dcs[d].readyState = "open"

TeardownOps == {"cancelTransfer", "resetState", "session-destroyed", "unmount", "close"}

\* C27: a file is delivered only by a frame arriving on an open channel, when
\* the context has a meta and its byte counter, the bytes of the delivered
\* parts, is at least the declared size.  A cancel, a reset, a destroyed
\* session, an unmount or the channel's close leaves no listening channel,
\* and from then on nothing is delivered.
C27_DeliveredOnlyWhenComplete ==
    [][LET s == peer["B"]
           t == peer'["B"]
       IN  /\ (t.delivered # s.delivered) =>
                 /\ Delivers("B")
                 /\ lastOp'.op = "message"
                 /\ Listening(s)
                 /\ t.recvMeta.type = "meta"
                 /\ t.recvBytes >= t.recvMeta.size
                 /\ t.recvBytes = SumLen(t.delivered[Len(t.delivered)].parts)
           /\ (lastOp'.op \in TeardownOps /\ lastOp'.p = "B") => ~Listening(t)
           /\ ~Listening(s) => (~Listening(t) /\ t.delivered = s.delivered)]_vars

\* one file was delivered; the next one was interrupted by Cancel, incomplete
C27_Witness ==
    LET s == peer["B"]
    IN  /\ lastOp.op = "cancelTransfer"
        /\ Len(s.delivered) = 1
        /\ s.recvMeta.type = "meta"
        /\ s.recvBytes > 0
        /\ s.recvBytes < s.recvMeta.size

-----------------------------------------------------------------------------
(* Properties of status, role and completion *)

Stage(status) ==
    CASE status = "waiting" -> 1
      [] status = "connected" -> 2
      [] status = "transferring" -> 3
      [] status = "completed" -> 4
      [] OTHER -> 0

\* C28: without a reset, a status among waiting, connected, transferring and
\* completed is followed by the same or a later one of them, or by error.
C28_StatusOnlyAdvances ==
    [][\A p \in Peers :
          (Stage(peer[p].status) > 0 /\ peer'[p].status # "error") =>
             Stage(peer'[p].status) >= Stage(peer[p].status)]_vars

\* C29: once a registered reply has written the role, a later registered
\* event leaves it as it is.
C29_RoleWrittenOnce ==
    [][(peer["A"].roleRef \in {"host", "guest"} /\ lastOp'.op = "registered") =>
          peer'["A"].roleRef = peer["A"].roleRef]_vars

\* the session-complete messages among those s has emitted and the relay has
\* not taken yet
Completes(s) == SelectSeq(s.out, LAMBDA m : m.ev = "session-complete")

\* C30: for a transfer of n files, session-complete is emitted only when the
\* sender has sent all n files and the receiver has finalized all n of them,
\* and at most once by the two peers together.
C30_CompleteOnceByTheLast ==
    LET n     == Len(peer["A"].runFiles)
        count == Len(Completes(peer["A"])) + Len(Completes(peer["B"]))
    IN  count > 0 =>
          /\ RunFinished(peer["A"])
          /\ Len(peer["B"].delivered) = n
          /\ count = 1

\* C31: status is completed only at a peer that has sent every file of a
\* run or has finalized a received file.
C31_CompletedOnlyAfterTransfer ==
    \A p \in Peers :
        peer[p].status = "completed" =>
            \/ peer[p].delivered # <<>>
            \/ /\ peer[p].sendStarted > 0
               /\ peer[p].sendFailures = 0
               /\ peer[p].runs = <<>>

\* the frames handed to send() on the channels of s
AllSent(s) == [d \in DOMAIN s.dcs |-> s.dcs[d].sentLog]

\* C32: after a cancel that found a sendFiles loop suspended (status idle,
\* the loop still pending), the loop's resumption hands no frame to the
\* channel and leaves status idle.
C32_CancelledLoopIsInert ==
    [][LET s == peer["A"]
           t == peer'["A"]
       IN  (/\ s.status = "idle"
            /\ s.runs # <<>>
            /\ lastOp'.op \in {"sliceRead", "sliceReadFails", "bufferedamountlow"}) =>
              /\ t.status = "idle"
              /\ AllSent(t) = AllSent(s)]_vars

\* the suspended run can still be resumed: its read is pending, or it waits
\* for bufferedamountlow and the event is queued or the channel can still drain
CanGoOn(s, run) ==
    \/ run.at = "slice"
    \/ /\ run.at = "bufferedamountlow"
       /\ \/ s.dcs[run.dc].lowEvent
          \/ s.dcs[run.dc].readyState = "open" /\ s.dcs[run.dc].buffer # <<>>

\* C33: while status is transferring a sendFiles run is suspended and can
\* still go on to completed or error: it has not returned, and it does not
\* wait for a bufferedamountlow event that cannot come.
C33_RunEndsCompletedOrError ==
    LET s == peer["A"]
    IN  s.status = "transferring" =>
            \E k \in DOMAIN s.runs : CanGoOn(s, s.runs[k])

\* the binary frames that arrived after position k of the log
BinaryAfter(log, k) ==
    SelectSeq(SubSeq(log, k + 1, Len(log)), LAMBDA f : f.kind # "meta")

\* C34: with binary frames that need an asynchronous conversion, the chunk
\* buffer holds frames in arrival order, all of which arrived after the
\* current meta frame, and every binary frame that arrived after that meta
\* frame is in the buffer or still being converted.
C34_AsyncChunksKeepTheirFile ==
    LET s == peer["B"]
        k == LastMeta(s.received)
    IN  /\ \A i \in DOMAIN s.recvChunks : s.recvChunks[i].offset > k
        /\ \A i, j \in DOMAIN s.recvChunks :
              i < j => s.recvChunks[i].offset < s.recvChunks[j].offset
        /\ \A f \in Range(BinaryAfter(s.received, k)) :
              f \in Range(s.recvChunks) \cup Range(s.converting)

\* the frame at position i of the log continues the file of the frame before
\* it, or begins a file after the previous one ended
FollowsOn(log, i) ==
    IF i = 1 THEN log[1].kind = "meta"
    ELSE LET f == log[i]
             g == log[i - 1]
         IN  IF f.kind = "meta"
             THEN \/ g.kind = "meta" /\ g.size = 0
                  \/ g.kind = "chunk" /\ g.name # "" /\
                     \E k \in 1..(i - 1) :
                        /\ log[k].kind = "meta"
                        /\ \A j \in (k + 1)..(i - 1) : log[j].kind = "chunk"
                        /\ g.offset + g.len = log[k].size
             ELSE IF g.kind = "meta" THEN f.offset = 0 /\ f.name = g.name
                  ELSE f.offset = g.offset + g.len /\ f.name = g.name

\* C35: at most one sendFiles run is suspended on a channel, and on every
\* channel each file's meta frame is followed by that file's chunks, in
\* offset order up to its size, before the next meta frame.
C35_OneRunPerChannel ==
    LET s == peer["A"]
    IN  \A d \in DOMAIN s.dcs :
           /\ Cardinality({k \in DOMAIN s.runs : s.runs[k].dc = d}) <= 1
           /\ \A i \in DOMAIN s.dcs[d].sentLog : FollowsOn(s.dcs[d].sentLog, i)

\* C36: on every connection the candidates are passed to addIceCandidate in
\* the order in which their ice signals arrived: none is passed for the first
\* time before one that arrived earlier.
C36_CandidatesInArrivalOrder ==
    LET s == peer["A"]
    IN  \A c \in DOMAIN s.pcs :
           LET first == FirstOccurrences(s.pcs[c].applied)
           IN  \A i, j \in DOMAIN first : i < j => first[i] < first[j]

=============================================================================
